---- MODULE Spec2Model ----
(***************************************************************************)
(* A model of orso's column encodings (src/orso/compute/column_types.h):   *)
(* RLEColumn<T> and DictionaryColumn<T>, their encode / decode / size      *)
(* operations, and the properties the specification states about them.     *)
(*                                                                         *)
(* Numbers.  lengths_ and indices_ hold uint32_t, sizes are size_t.  TLC's *)
(* integers are 32-bit signed, so a number that may reach 2^32 is kept as  *)
(* a pair <<hi, lo>> of 16-bit limbs standing for hi * 2^16 + lo.  A       *)
(* uint32_t has hi < 2^16; the conversion to uint32_t drops the rest.      *)
(*                                                                         *)
(* Buffers.  A raw buffer that may hold 2^32 elements is written as a      *)
(* sequence of blocks.  For the RLE column a block [v, n] is n copies of   *)
(* v; for the dictionary column a block [v, n] is the n consecutive        *)
(* values v, v+1, .., v+n-1.  A block with n = 1 is one element.  The loop *)
(* bodies are translated as they stand (RLEStep, DictStep) and iterated    *)
(* over a short block; over a long block the same iteration is summed up   *)
(* in closed form, and StepwiseAgrees checks the two against each other.   *)
(***************************************************************************)
EXTENDS Integers, Sequences, FiniteSets, TLC

\* ------------------------------------------------------------- bounds
NumValues == 2      \* the element values 1 .. NumValues
MaxRuns == 2        \* blocks of a buffer handed to RLEColumn::encode
MaxItems == 3       \* blocks of a buffer handed to DictionaryColumn::encode
MaxCalls == 2       \* encode calls on one column
MaxStored == 2      \* entries of a stored (possibly corrupt) dictionary column
MaxIndex == 2       \* largest index value of a stored dictionary column

\* ------------------------------------------------------ wide naturals
LimbBase == 65536

W0 == <<0, 0>>
W1 == <<0, 1>>
W2 == <<0, 2>>
Small(k) == <<0, k>>

WAdd(a, b) ==
    LET s == a[2] + b[2]
    IN  <<a[1] + b[1] + (s \div LimbBase), s % LimbBase>>

\* a - b for a >= b
WSub(a, b) ==
    LET d == a[2] - b[2]
    IN  IF d >= 0 THEN <<a[1] - b[1], d>> ELSE <<a[1] - b[1] - 1, d + LimbBase>>

WLt(a, b) == a[1] < b[1] \/ (a[1] = b[1] /\ a[2] < b[2])
WLe(a, b) == a = b \/ WLt(a, b)
WMin(a, b) == IF WLt(a, b) THEN a ELSE b

\* 2^32, and the largest uint32_t
Uint32Modulus == <<LimbBase, 0>>
Uint32Max == <<LimbBase - 1, LimbBase - 1>>

\* the value a size_t (or a wider count) has once stored in a uint32_t
ToUint32(a) == <<a[1] % LimbBase, a[2]>>

\* a count short enough to run the loop body once per element
IsSmall(n) == n[1] = 0

\* ---------------------------------------------------------- the state
VARIABLES
    values_,      \* RLEColumn: std::vector<T>
    lengths_,     \* RLEColumn: std::vector<uint32_t>
    rleData,      \* the buffer handed to the last RLEColumn::encode
    rleCalls,     \* number of RLEColumn::encode calls so far
    rleLast,      \* the last operation on the RLE column
    rleResult,    \* what the last RLEColumn::decode returned
    rleSize,      \* what the last RLEColumn::decoded_size returned
    dictionary_,  \* DictionaryColumn: std::vector<T>
    indices_,     \* DictionaryColumn: std::vector<uint32_t>
    dictData,     \* the buffer handed to the last DictionaryColumn::encode
    dictCalls,    \* number of DictionaryColumn::encode calls so far
    dictLast,     \* the last operation on the dictionary column
    dictOutcome,  \* how the last DictionaryColumn::decode ended
    dictLookups,  \* dictionary_[idx] lookups the last decode made
    dictSize,     \* what the last DictionaryColumn::size returned
    firstError    \* the first decode error of the run: offending index, what()

rleVars == <<values_, lengths_, rleData, rleCalls, rleLast, rleResult, rleSize>>
dictVars == <<dictionary_, indices_, dictData, dictCalls, dictLast,
              dictOutcome, dictLookups, dictSize, firstError>>
vars == <<rleVars, dictVars>>

Values == 1 .. NumValues

\* ------------------------------------------------ buffers of equal runs
\* the block lengths the inputs are drawn from: 1, 2^32 - 1, 2^32
RunLengths == {W1, Uint32Max, Uint32Modulus}
RepBlocks == [v : Values, n : RunLengths]

SeqsUpTo(S, k) == UNION {[1 .. m -> S] : m \in 0 .. k}

RLEInputs == SeqsUpTo(RepBlocks, MaxRuns)

\* result.push_back(v), n times, on a buffer written as blocks of equal values
RepPushBack(buf, v, n) ==
    IF n = W0 THEN buf
    ELSE IF Len(buf) > 0 /\ buf[Len(buf)].v = v
         THEN [buf EXCEPT ![Len(buf)].n = WAdd(@, n)]
         ELSE Append(buf, [v |-> v, n |-> n])

\* the buffer with its blocks merged into maximal runs: the one way to write
\* a given sequence of elements
RECURSIVE RepCanon(_)
RepCanon(data) ==
    IF Len(data) = 0 THEN <<>>
    ELSE LET last == data[Len(data)]
         IN  RepPushBack(RepCanon(SubSeq(data, 1, Len(data) - 1)), last.v, last.n)

\* the number of elements of a buffer: the size argument of encode
RECURSIVE BufSize(_)
BufSize(data) ==
    IF Len(data) = 0 THEN W0 ELSE WAdd(data[1].n, BufSize(Tail(data)))

\* ----------------------------------------------------------- RLEColumn
\* the body of the scan loop for one element x = data[i]
RLEStepNoReset(st, x) ==
    IF x = st.current_value
    THEN [st EXCEPT !.current_length = ToUint32(WAdd(@, W1))]
    ELSE [values |-> Append(st.values, st.current_value),
          lengths |-> Append(st.lengths, st.current_length),
          current_value |-> x,
          current_length |-> st.current_length]

RLEStep(st, x) ==
    IF x = st.current_value
    THEN [st EXCEPT !.current_length = ToUint32(WAdd(@, W1))]
    ELSE [values |-> Append(st.values, st.current_value),
          lengths |-> Append(st.lengths, st.current_length),
          current_value |-> x,
          current_length |-> W1]

\* the loop body run over k elements equal to x, one at a time (k an integer)
RECURSIVE RLEIterate(_, _, _)
RLEIterate(st, x, k) ==
    IF k = 0 THEN st ELSE RLEIterate(RLEStep(st, x), x, k - 1)

\* the loop body run over n elements equal to x, summed up: the first takes
\* either branch, each of the n - 1 that follow finds data[i] == current_value
\* and increments the uint32_t counter
RLESummed(st, x, n) ==
    IF n = W0 THEN st
    ELSE [RLEStep(st, x) EXCEPT !.current_length = ToUint32(WAdd(@, WSub(n, W1)))]

RLEScanBlock(st, x, n) ==
    IF IsSmall(n) THEN RLEIterate(st, x, n[2]) ELSE RLESummed(st, x, n)

RECURSIVE RLEScan(_, _)
RLEScan(st, blocks) ==
    IF Len(blocks) = 0 THEN st
    ELSE RLEScan(RLEScanBlock(st, blocks[1].v, blocks[1].n), Tail(blocks))

\* RLEColumn<T>::encode(data, size) on the column col
RLEEncodeNoClear(col, data) ==
    IF Len(data) = 0 THEN col
    ELSE LET st0 == [values |-> col.values, lengths |-> col.lengths,
                     current_value |-> data[1].v, current_length |-> W1]
             st1 == RLEScanBlock(st0, data[1].v, WSub(data[1].n, W1))
             st == RLEScan(st1, Tail(data))
         IN  [values |-> Append(st.values, st.current_value),
              lengths |-> Append(st.lengths, st.current_length)]

RLEEncode(col, data) ==
    IF Len(data) = 0 THEN col
    ELSE LET st0 == [values |-> <<>>, lengths |-> <<>>,
                     current_value |-> data[1].v, current_length |-> W1]
             st1 == RLEScanBlock(st0, data[1].v, WSub(data[1].n, W1))
             st == RLEScan(st1, Tail(data))
         IN  [values |-> Append(st.values, st.current_value),
              lengths |-> Append(st.lengths, st.current_length)]

\* RLEColumn<T>::decoded_size(): the sum of lengths_ as a size_t
RECURSIVE SumLengths(_)
SumLengths(lens) ==
    IF Len(lens) = 0 THEN W0 ELSE WAdd(lens[1], SumLengths(Tail(lens)))

RLEDecodedSize(col) == SumLengths(col.lengths)

\* RLEColumn<T>::decode(): run i pushes values_[i] lengths_[i] times
RECURSIVE RLEDecodeFrom(_, _, _)
RLEDecodeFrom(col, i, result) ==
    IF i > Len(col.values) THEN result
    ELSE RLEDecodeFrom(col, i + 1, RepPushBack(result, col.values[i], col.lengths[i]))

RLEDecode(col) == RLEDecodeFrom(col, 1, <<>>)

RLECol == [values |-> values_, lengths |-> lengths_]

\* --------------------------------------- buffers of consecutive values
\* A std::vector<T> written as blocks [v, n] of the consecutive values
\* v .. v+n-1, kept merged so that equal vectors are written alike.

\* vec.size()
RECURSIVE AscSize(_)
AscSize(vec) ==
    IF Len(vec) = 0 THEN W0 ELSE WAdd(vec[1].n, AscSize(Tail(vec)))

\* vec.push_back(v), .., vec.push_back(v + n - 1)
AscPushBackRange(vec, v, n) ==
    IF n = W0 THEN vec
    ELSE IF Len(vec) > 0 /\ WAdd(vec[Len(vec)].v, vec[Len(vec)].n) = v
         THEN [vec EXCEPT ![Len(vec)].n = WAdd(@, n)]
         ELSE Append(vec, [v |-> v, n |-> n])

\* vec.push_back(x)
AscPushBack(vec, x) == AscPushBackRange(vec, x, W1)

RECURSIVE AscCanon(_)
AscCanon(data) ==
    IF Len(data) = 0 THEN <<>>
    ELSE LET last == data[Len(data)]
         IN  AscPushBackRange(AscCanon(SubSeq(data, 1, Len(data) - 1)), last.v, last.n)

\* whether block b holds the value x
Holds(b, x) == WLe(b.v, x) /\ WLt(x, WAdd(b.v, b.n))

\* std::find(vec.begin(), vec.end(), x) - vec.begin(): the position of the
\* first element equal to x, vec.size() when there is none
RECURSIVE AscFindFrom(_, _, _, _)
AscFindFrom(vec, i, off, x) ==
    IF i > Len(vec) THEN off
    ELSE IF Holds(vec[i], x) THEN WAdd(off, WSub(x, vec[i].v))
    ELSE AscFindFrom(vec, i + 1, WAdd(off, vec[i].n), x)

AscFind(vec, x) == AscFindFrom(vec, 1, W0, x)

\* the block of vec that holds position p < vec.size(), and p's offset in it
RECURSIVE AscLocate(_, _, _)
AscLocate(vec, i, p) ==
    IF WLt(p, vec[i].n) THEN [block |-> i, offset |-> p]
    ELSE AscLocate(vec, i + 1, WSub(p, vec[i].n))

\* vec[p] for p < vec.size()
AscAt(vec, p) ==
    LET at == AscLocate(vec, 1, p) IN WAdd(vec[at.block].v, at.offset)

\* ------------------------------------------------- buffers of indices
\* A std::vector<uint32_t> written as blocks [s, n] of the n values
\* s, s+1, .. counted modulo 2^32, kept merged.

\* indices_.push_back(p), .., indices_.push_back(p + n - 1), each size_t
\* narrowed to uint32_t as it is stored
IdxPushBackRange(vec, p, n) ==
    IF n = W0 THEN vec
    ELSE IF Len(vec) > 0
            /\ ToUint32(WAdd(vec[Len(vec)].s, vec[Len(vec)].n)) = ToUint32(p)
         THEN [vec EXCEPT ![Len(vec)].n = WAdd(@, n)]
         ELSE Append(vec, [s |-> ToUint32(p), n |-> n])

IdxPushBack(vec, p) == IdxPushBackRange(vec, p, W1)

\* vec.size()
RECURSIVE IdxSize(_)
IdxSize(vec) ==
    IF Len(vec) = 0 THEN W0 ELSE WAdd(vec[1].n, IdxSize(Tail(vec)))

\* vec[i] for i < vec.size()
RECURSIVE IdxAtFrom(_, _, _)
IdxAtFrom(vec, k, i) ==
    IF WLt(i, vec[k].n) THEN ToUint32(WAdd(vec[k].s, i))
    ELSE IdxAtFrom(vec, k + 1, WSub(i, vec[k].n))

IdxAt(vec, i) == IdxAtFrom(vec, 1, i)

\* the largest value of the block [s, n]: s + n - 1, or 2^32 - 1 once the
\* block reaches the wrap
IdxBlockMax(b) ==
    IF WLe(WAdd(b.s, b.n), Uint32Modulus) THEN WSub(WAdd(b.s, b.n), W1)
    ELSE Uint32Max

\* ---------------------------------------------------- DictionaryColumn
\* the body of the encode loop for one element value = data[i]
DictStepOffByOne(st, value) ==
    LET p == AscFind(st.unique_values, value)
    IN  IF p = AscSize(st.unique_values)
        THEN LET u == AscPushBack(st.unique_values, value)
             IN  [unique_values |-> u, indices |-> IdxPushBack(st.indices, AscSize(u))]
        ELSE [st EXCEPT !.indices = IdxPushBack(@, p)]

DictStep(st, value) ==
    LET p == AscFind(st.unique_values, value)
    IN  IF p = AscSize(st.unique_values)
        THEN LET u == AscPushBack(st.unique_values, value)
             IN  [unique_values |-> u,
                  indices |-> IdxPushBack(st.indices, WSub(AscSize(u), W1))]
        ELSE [st EXCEPT !.indices = IdxPushBack(@, p)]

\* the loop body run over the k values v, v+1, .., one at a time
RECURSIVE DictIterate(_, _, _)
DictIterate(st, v, k) ==
    IF k = 0 THEN st ELSE DictIterate(DictStep(st, v), WAdd(v, W1), k - 1)

\* the loop body run over the n values v .. v+n-1, summed up.  The values
\* of a block differ from each other, so whether one is found depends on
\* unique_values as it was before the block.  If v is found in block b of
\* unique_values, so are the values after it up to b's end, at the positions
\* after p.  If v is not found, neither are the values after it up to the
\* next value unique_values holds: each is appended and gets the next
\* position.
RECURSIVE DictSummed(_, _, _)
DictSummed(st, v, n) ==
    IF n = W0 THEN st
    ELSE LET uv == st.unique_values
             p == AscFind(uv, v)
         IN  IF p = AscSize(uv)
             THEN LET later == {i \in DOMAIN uv : WLt(v, uv[i].v)}
                      next == CHOOSE i \in later :
                                  \A j \in later : WLe(uv[i].v, uv[j].v)
                      m == IF later = {} THEN n ELSE WMin(n, WSub(uv[next].v, v))
                  IN  DictSummed(
                          [unique_values |-> AscPushBackRange(uv, v, m),
                           indices |-> IdxPushBackRange(st.indices, AscSize(uv), m)],
                          WAdd(v, m), WSub(n, m))
             ELSE LET b == CHOOSE i \in DOMAIN uv :
                               /\ Holds(uv[i], v)
                               /\ \A j \in 1 .. i - 1 : ~Holds(uv[j], v)
                      m == WMin(n, WSub(WAdd(uv[b].v, uv[b].n), v))
                  IN  DictSummed(
                          [st EXCEPT !.indices = IdxPushBackRange(@, p, m)],
                          WAdd(v, m), WSub(n, m))

DictScanBlock(st, v, n) ==
    IF IsSmall(n) THEN DictIterate(st, v, n[2]) ELSE DictSummed(st, v, n)

RECURSIVE DictScan(_, _)
DictScan(st, blocks) ==
    IF Len(blocks) = 0 THEN st
    ELSE DictScan(DictScanBlock(st, blocks[1].v, blocks[1].n), Tail(blocks))

\* DictionaryColumn<T>::encode(data, size) on the column col
DictEncode(col, data) ==
    IF Len(data) = 0 THEN col
    ELSE LET st == DictScan([unique_values |-> <<>>, indices |-> <<>>], data)
         IN  [dictionary |-> st.unique_values, indices |-> st.indices]

\* DictionaryColumn<T>::size()
DictSizeOf(col) == IdxSize(col.indices)

OutOfRangeWhat == "Dictionary index out of range"

\* the body of the decode loop for one idx; a throw leaves the loop
DecodeStepNoCheck(st, dict, idx) ==
    IF st.thrown THEN st
    ELSE IF ~WLt(idx, AscSize(dict))
         THEN st
         ELSE [st EXCEPT !.result = AscPushBack(@, AscAt(dict, idx)),
                         !.lookups = WAdd(@, W1)]

DecodeStep(st, dict, idx) ==
    IF st.thrown THEN st
    ELSE IF ~WLt(idx, AscSize(dict))
         THEN [st EXCEPT !.thrown = TRUE, !.what = OutOfRangeWhat, !.index = idx]
         ELSE [st EXCEPT !.result = AscPushBack(@, AscAt(dict, idx)),
                         !.lookups = WAdd(@, W1)]

\* the loop body run over the k indices s, s+1, .. (modulo 2^32), one at a time
RECURSIVE DecodeIterate(_, _, _, _)
DecodeIterate(st, dict, s, k) ==
    IF k = 0 THEN st
    ELSE DecodeIterate(DecodeStep(st, dict, s), dict, ToUint32(WAdd(s, W1)), k - 1)

\* the loop body run over the n indices s, s+1, .. (modulo 2^32), summed up:
\* an index in range is followed by indices in range, looking up consecutive
\* values, up to the end of its dictionary block or the wrap of the index
RECURSIVE DecodeSummed(_, _, _, _)
DecodeSummed(st, dict, s, n) ==
    IF n = W0 \/ st.thrown THEN st
    ELSE IF ~WLt(s, AscSize(dict)) THEN DecodeStep(st, dict, s)
    ELSE LET at == AscLocate(dict, 1, s)
             m == WMin(n, WMin(WSub(dict[at.block].n, at.offset),
                               WSub(Uint32Modulus, s)))
         IN  DecodeSummed(
                 [st EXCEPT !.result = AscPushBackRange(@, AscAt(dict, s), m),
                            !.lookups = WAdd(@, m)],
                 dict, ToUint32(WAdd(s, m)), WSub(n, m))

DecodeBlock(st, dict, s, n) ==
    IF IsSmall(n) THEN DecodeIterate(st, dict, s, n[2]) ELSE DecodeSummed(st, dict, s, n)

RECURSIVE DecodeScan(_, _, _)
DecodeScan(st, dict, idxs) ==
    IF Len(idxs) = 0 THEN st
    ELSE DecodeScan(DecodeBlock(st, dict, idxs[1].s, idxs[1].n), dict, Tail(idxs))

\* DictionaryColumn<T>::decode() as it runs: the local result, whether it
\* threw, and (for the properties) the lookups made and the index it threw at
DictDecodeRun(col) ==
    DecodeScan([result |-> <<>>, thrown |-> FALSE, what |-> "", index |-> W0,
                lookups |-> W0],
               col.dictionary, col.indices)

\* what the caller of decode() gets: the vector, or the exception alone (the
\* local result is destroyed as the exception leaves the function)
DictDecode(col) ==
    LET run == DictDecodeRun(col)
    IN  IF run.thrown THEN [kind |-> "out_of_range", what |-> run.what, value |-> <<>>]
        ELSE [kind |-> "value", what |-> "", value |-> run.result]

DictCol == [dictionary |-> dictionary_, indices |-> indices_]

\* ------------------------------------------------------------- inputs
\* the buffers handed to DictionaryColumn::encode: single values, and a long
\* block of 2^32 - 1 values that differ from each other and from the single
\* ones
LongBase == <<1, 0>>
AscBlocks ==
    {[v |-> Small(k), n |-> W1] : k \in Values}
        \cup {[v |-> LongBase, n |-> Uint32Max]}

DictInputs == SeqsUpTo(AscBlocks, MaxItems)

RECURSIVE AscFromValues(_)
AscFromValues(q) ==
    IF Len(q) = 0 THEN <<>>
    ELSE AscPushBack(AscFromValues(SubSeq(q, 1, Len(q) - 1)), Small(q[Len(q)]))

RECURSIVE IdxFromValues(_)
IdxFromValues(q) ==
    IF Len(q) = 0 THEN <<>>
    ELSE IdxPushBack(IdxFromValues(SubSeq(q, 1, Len(q) - 1)), q[Len(q)])

\* the contents a stored column may have: any dictionary, and any indices
\* among 0 .. MaxIndex and the largest uint32_t
StoredDictionaries == {AscFromValues(q) : q \in SeqsUpTo(Values, MaxStored)}
IndexValues == {Small(k) : k \in 0 .. MaxIndex} \cup {Uint32Max}
StoredIndices == {IdxFromValues(q) : q \in SeqsUpTo(IndexValues, MaxStored)}

NoOutcome == [kind |-> "none", what |-> "", value |-> <<>>]
NoError == [index |-> W0, what |-> ""]

\* ------------------------------------------------------------ actions
RLEInit ==
    /\ values_ = <<>>
    /\ lengths_ = <<>>
    /\ rleData = <<>>
    /\ rleCalls = 0
    /\ rleLast = "new"
    /\ rleResult = <<>>
    /\ rleSize = W0

DictInit ==
    /\ dictionary_ = <<>>
    /\ indices_ = <<>>
    /\ dictData = <<>>
    /\ dictCalls = 0
    /\ dictLast = "new"
    /\ dictOutcome = NoOutcome
    /\ dictLookups = W0
    /\ dictSize = W0
    /\ firstError = NoError

\* a column whose contents were stored elsewhere and put back, intact or not
StoredInit ==
    /\ values_ = <<>>
    /\ lengths_ = <<>>
    /\ rleData = <<>>
    /\ rleCalls = 0
    /\ rleLast = "new"
    /\ rleResult = <<>>
    /\ rleSize = W0
    /\ dictionary_ \in StoredDictionaries
    /\ indices_ \in StoredIndices
    /\ dictData = <<>>
    /\ dictCalls = 0
    /\ dictLast = "stored"
    /\ dictOutcome = NoOutcome
    /\ dictLookups = W0
    /\ dictSize = W0
    /\ firstError = NoError

Init == RLEInit /\ DictInit

RLE_encode ==
    /\ rleCalls < MaxCalls
    /\ \E data \in RLEInputs :
          \E col \in {RLEEncode(RLECol, data)} :
              /\ values_' = col.values
              /\ lengths_' = col.lengths
              /\ rleData' = data
    /\ rleCalls' = rleCalls + 1
    /\ rleLast' = "encode"
    /\ rleResult' = <<>>
    /\ rleSize' = W0
    /\ UNCHANGED dictVars

RLE_decode ==
    /\ rleResult' = RLEDecode(RLECol)
    /\ rleLast' = "decode"
    /\ UNCHANGED <<values_, lengths_, rleData, rleCalls, rleSize>>
    /\ UNCHANGED dictVars

RLE_decoded_size ==
    /\ rleSize' = RLEDecodedSize(RLECol)
    /\ rleLast' = "decoded_size"
    /\ UNCHANGED <<values_, lengths_, rleData, rleCalls, rleResult>>
    /\ UNCHANGED dictVars

Dict_encode ==
    /\ dictCalls < MaxCalls
    /\ \E data \in DictInputs :
          \E col \in {DictEncode(DictCol, data)} :
              /\ dictionary_' = col.dictionary
              /\ indices_' = col.indices
              /\ dictData' = data
    /\ dictCalls' = dictCalls + 1
    /\ dictLast' = "encode"
    /\ dictOutcome' = NoOutcome
    /\ dictLookups' = W0
    /\ dictSize' = W0
    /\ UNCHANGED firstError
    /\ UNCHANGED rleVars

Dict_decode ==
    /\ \E run \in {DictDecodeRun(DictCol)} :
          /\ dictLookups' = run.lookups
          /\ firstError' = IF run.thrown /\ firstError = NoError
                           THEN [index |-> run.index, what |-> run.what]
                           ELSE firstError
    /\ dictOutcome' = DictDecode(DictCol)
    /\ dictLast' = "decode"
    /\ UNCHANGED <<dictionary_, indices_, dictData, dictCalls, dictSize>>
    /\ UNCHANGED rleVars

Dict_size ==
    /\ dictSize' = DictSizeOf(DictCol)
    /\ dictLast' = "size"
    /\ UNCHANGED <<dictionary_, indices_, dictData, dictCalls, dictOutcome,
                   dictLookups, firstError>>
    /\ UNCHANGED rleVars

\* the stored indices are replaced by others
Dict_restore ==
    /\ \E idxs \in StoredIndices : indices_' = idxs
    /\ dictLast' = "stored"
    /\ dictOutcome' = NoOutcome
    /\ dictLookups' = W0
    /\ UNCHANGED <<dictionary_, dictData, dictCalls, dictSize, firstError>>
    /\ UNCHANGED rleVars

RLENext == RLE_encode \/ RLE_decode \/ RLE_decoded_size
DictNext == Dict_encode \/ Dict_decode \/ Dict_size
StoredNext == Dict_restore \/ Dict_decode \/ Dict_size

\* an RLE column, from construction, under encode / decode / decoded_size
SpecRLE == Init /\ [][RLENext]_vars
\* a dictionary column, from construction, under encode / decode / size
SpecDict == Init /\ [][DictNext]_vars
\* a dictionary column with stored contents, under decode / size
SpecStored == StoredInit /\ [][StoredNext]_vars

\* ------------------------------------------------- RLEColumn: properties
\* every maximal run of the buffer is shorter than 2^32 elements
RunsFitUint32(data) ==
    \A i \in DOMAIN RepCanon(data) : WLt(RepCanon(data)[i].n, Uint32Modulus)

\* C1: RLE round trip.  decode() after one encode(S) on a freshly constructed
\* column returns S, element for element, for every S (the empty one too)
\* whose runs are all shorter than 2^32 elements.
RLERoundTrip ==
    (rleCalls = 1 /\ rleLast = "decode" /\ RunsFitUint32(rleData))
        => rleResult = RepCanon(rleData)

RLERoundTripWitness ==
    /\ rleCalls = 1
    /\ rleLast = "decode"
    /\ RunsFitUint32(rleData)
    /\ Len(rleData) = 2
    /\ rleData[1].n = Uint32Max
    /\ rleData[1].v # rleData[2].v
    /\ rleResult = RepCanon(rleData)

\* C3: right after encode with size 0, in whatever state the column was,
\* values() and lengths() are empty, decoded_size() is 0 and decode() returns
\* the empty sequence.
RLEEmptyEncodeEmpties ==
    (rleLast = "encode" /\ Len(rleData) = 0)
        => /\ values_ = <<>>
           /\ lengths_ = <<>>
           /\ RLEDecodedSize(RLECol) = W0
           /\ RLEDecode(RLECol) = <<>>

\* C5: RLE maximality.  In every state an RLE column reaches through encode
\* calls, values() and lengths() are equally long and no two adjacent entries
\* of values() are equal.
RLEMaximal ==
    /\ Len(values_) = Len(lengths_)
    /\ \A i \in 1 .. Len(values_) - 1 : values_[i] # values_[i + 1]

RLEMaximalWitness ==
    /\ rleCalls = 2
    /\ rleLast = "encode"
    /\ Len(rleData) = 2
    /\ rleData[1].v = rleData[2].v
    /\ Len(values_) = 1

\* C6: RLE length conservation.  After encode(S) on a fresh column every
\* entry of lengths() is at least 1 and is the length of the corresponding
\* maximal run of S, and decoded_size() is the length of S: for every S, a
\* run of 2^32 or more equal elements included.
RLELengthConservation ==
    (rleCalls = 1 /\ rleLast = "encode")
        => LET runs == RepCanon(rleData)
           IN  /\ Len(lengths_) = Len(runs)
               /\ \A i \in DOMAIN lengths_ :
                     WLe(W1, lengths_[i]) /\ lengths_[i] = runs[i].n
               /\ RLEDecodedSize(RLECol) = BufSize(rleData)

\* ------------------------------------------ DictionaryColumn: properties
\* the positions of a buffer at which a block starts or ends
RECURSIVE BlockEndsFrom(_, _, _)
BlockEndsFrom(vec, i, off) ==
    IF i > Len(vec) THEN {}
    ELSE {off, WSub(WAdd(off, vec[i].n), W1)}
             \cup BlockEndsFrom(vec, i + 1, WAdd(off, vec[i].n))

BlockEnds(vec) == BlockEndsFrom(vec, 1, W0)

\* C2: dictionary round trip.  decode() after one encode(S) on a freshly
\* constructed column returns, with no error, S element for element, and
\* size() is the length of S: for every S, the empty one too.
DictRoundTrip ==
    (dictCalls = 1 /\ dictLast = "decode")
        => /\ dictOutcome.kind = "value"
           /\ dictOutcome.value = AscCanon(dictData)
           /\ DictSizeOf(DictCol) = BufSize(dictData)

\* C4: right after encode with size 0, in whatever state the column was,
\* dictionary() and indices() are empty, size() is 0 and decode() returns the
\* empty sequence.
DictEmptyEncodeEmpties ==
    (dictLast = "encode" /\ Len(dictData) = 0)
        => /\ dictionary_ = <<>>
           /\ indices_ = <<>>
           /\ DictSizeOf(DictCol) = W0
           /\ DictDecode(DictCol) = [kind |-> "value", what |-> "", value |-> <<>>]

\* C7: dictionary order and uniqueness.  After encode(S), S not empty, the
\* entries of dictionary() differ from each other, every value of S is among
\* them, an entry that comes before another first occurs in S before it,
\* and indices()[i] is the position of S[i] in dictionary() for every i.
\* (The positions are taken where a block of S or of dictionary() starts or
\* ends: the claim speaks of all of them, these among them.)
DictFirstOccurrence ==
    (dictLast = "encode" /\ Len(dictData) > 0)
        => /\ \A i, j \in DOMAIN dictionary_ :
                 i # j => \/ WLe(WAdd(dictionary_[i].v, dictionary_[i].n), dictionary_[j].v)
                          \/ WLe(WAdd(dictionary_[j].v, dictionary_[j].n), dictionary_[i].v)
           /\ \A i \in BlockEnds(dictData) :
                 AscFind(dictionary_, AscAt(dictData, i)) # AscSize(dictionary_)
           /\ \A p, q \in BlockEnds(dictionary_) :
                 WLt(p, q) => WLt(AscFind(dictData, AscAt(dictionary_, p)),
                                  AscFind(dictData, AscAt(dictionary_, q)))
           /\ IdxSize(indices_) = BufSize(dictData)
           /\ \A i \in BlockEnds(dictData) :
                 IdxAt(indices_, i) = AscFind(dictionary_, AscAt(dictData, i))

\* C8: dictionary index validity.  In every state a dictionary column
\* reaches from construction through encode calls, every entry of indices()
\* is below the length of dictionary(), and decode() raises no error.
DictIndexValid ==
    /\ \A k \in DOMAIN indices_ :
          WLt(IdxBlockMax(indices_[k]), AscSize(dictionary_))
    /\ dictLast = "decode" => dictOutcome.kind = "value"

DictIndexValidWitness ==
    /\ dictCalls = 2
    /\ dictLast = "decode"
    /\ WLt(Uint32Modulus, AscSize(dictionary_))
    /\ dictOutcome.kind = "value"

\* whether some entry of indices_ is not below the length of dictionary_
HasBadIndex ==
    \E k \in DOMAIN indices_ :
        ~WLt(IdxBlockMax(indices_[k]), AscSize(dictionary_))

\* the number of entries of idxs before the first that is not below size
\* (all of them when there is none)
RECURSIVE EntriesBeforeBad(_, _, _, _)
EntriesBeforeBad(idxs, k, off, size) ==
    IF k > Len(idxs) THEN off
    ELSE IF WLt(IdxBlockMax(idxs[k]), size)
         THEN EntriesBeforeBad(idxs, k + 1, WAdd(off, idxs[k].n), size)
    ELSE IF ~WLt(idxs[k].s, size) THEN off
    ELSE WAdd(off, WSub(size, idxs[k].s))

\* C9: corruption detection.  decode() ends in the out-of-range error exactly
\* when some entry of indices is not below the length of the dictionary; it
\* then hands no sequence to the caller, and it raised at the first such
\* entry: it looked up the entries before it and none after.
DictCorruptionDetected ==
    dictLast = "decode"
        => /\ dictOutcome.kind \in {"value", "out_of_range"}
           /\ dictOutcome.kind = "out_of_range" <=> HasBadIndex
           /\ dictOutcome.kind = "out_of_range" => dictOutcome.value = <<>>
           /\ dictLookups = EntriesBeforeBad(indices_, 1, W0, AscSize(dictionary_))

\* the first entry is out of range, a later one is not and is never looked up
DictCorruptionDetectedWitness ==
    /\ dictLast = "decode"
    /\ dictOutcome.kind = "out_of_range"
    /\ HasBadIndex
    /\ IdxSize(indices_) = W2
    /\ ~WLt(IdxAt(indices_, W0), AscSize(dictionary_))
    /\ WLt(IdxAt(indices_, W1), AscSize(dictionary_))
    /\ dictLookups = W0

\* C10: the out-of-range error identifies the offending index, so two
\* columns whose first offending indices differ raise errors that differ.
DictErrorIdentifiesIndex ==
    (/\ dictLast = "decode"
     /\ dictOutcome.kind = "out_of_range"
     /\ firstError # NoError
     /\ firstError.index # DictDecodeRun(DictCol).index)
        => firstError.what # dictOutcome.what

\* ------------------------------------------- the summed-up iterations
\* In every reachable state, from every scan state over the current column,
\* a loop summed up over a block of up to 4 elements ends where the loop body
\* run once per element ends: around the wrap of the counter, across the
\* blocks of the dictionary, and across the wrap of the index.
NearWrap == {W0, W1, W2, WSub(Uint32Max, W2), WSub(Uint32Max, W1), Uint32Max}
SampleValues ==
    {Small(k) : k \in 0 .. NumValues + 1}
        \cup {WAdd(WSub(LongBase, W2), Small(k)) : k \in 0 .. 3}
        \cup {WAdd(WAdd(LongBase, WSub(Uint32Max, W2)), Small(k)) : k \in 0 .. 3}

StepwiseAgrees ==
    /\ \A x \in Values, cv \in Values, cl \in NearWrap, k \in 0 .. 4 :
          LET st == [values |-> values_, lengths |-> lengths_,
                     current_value |-> cv, current_length |-> cl]
          IN  RLESummed(st, x, Small(k)) = RLEIterate(st, x, k)
    /\ \A v \in SampleValues, k \in 0 .. 4 :
          LET st == [unique_values |-> dictionary_, indices |-> indices_]
          IN  DictSummed(st, v, Small(k)) = DictIterate(st, v, k)
    /\ \A s \in NearWrap \cup {ToUint32(WAdd(AscSize(dictionary_), d)) : d \in {Uint32Max, W0}},
          k \in 0 .. 4 :
          LET st == DictDecodeRun(DictCol)
          IN  DecodeSummed(st, dictionary_, s, Small(k))
                  = DecodeIterate(st, dictionary_, s, k)

====
